---- MODULE Spec2Model ----
(***************************************************************************)
(* A model of footo_secure.py (Footo 1.1.0): name validation, path         *)
(* confinement, descriptor validation, scope-ordered module lookup,        *)
(* command synthesis and the create / run command handlers, over an        *)
(* explicit file-system tree.                                              *)
(*                                                                         *)
(* Strings are sequences of one-character strings, so that regular         *)
(* expressions, prefixes, suffixes and quoting are computed character by   *)
(* character.  A path is a sequence of component names (the root is the    *)
(* empty sequence).  The file system maps the physical path of every       *)
(* existing entry to its node, with the permission bits that chmod sets.   *)
(* The host says who runs the program and what the file system supports:   *)
(* a privileged process passes every permission test; an unprivileged one, *)
(* the owner of the tree, needs the owner's search bit on every directory  *)
(* a path goes through and the owner's write bit where it writes; chmod    *)
(* fails on a host whose file system keeps no permission bits.  The host   *)
(* does not change while the program runs.                                 *)
(***************************************************************************)
EXTENDS Integers, Sequences, FiniteSets, TLC

VARIABLES fs, call, ret, host

vars == <<fs, call, ret, host>>

(***************************************************************************)
(* Bounds of the model.                                                    *)
(***************************************************************************)
MaxNameLen == 3
MaxTrav == 3
MaxQLen == 2
MaxArgs == 2
MaxVerLen == 5
MaxLinkDepth == 4

(***************************************************************************)
(* Strings.                                                                *)
(***************************************************************************)
Strings(A, n) ==
    UNION {[1..k -> A] : k \in 0..n}

RECURSIVE Rep(_, _)
Rep(c, n) ==
    IF n = 0 THEN <<>> ELSE <<c>> \o Rep(c, n - 1)

RECURSIVE Concat(_)
Concat(ss) ==
    IF ss = <<>> THEN <<>> ELSE Head(ss) \o Concat(Tail(ss))

RECURSIVE JoinWith(_, _)
JoinWith(sep, ss) ==
    IF ss = <<>> THEN <<>>
    ELSE IF Len(ss) = 1 THEN ss[1]
    ELSE ss[1] \o sep \o JoinWith(sep, Tail(ss))

StartsWith(s, p) ==
    Len(p) <= Len(s) /\ SubSeq(s, 1, Len(p)) = p

EndsWith(s, p) ==
    Len(p) <= Len(s) /\ SubSeq(s, Len(s) - Len(p) + 1, Len(s)) = p

IsPrefix(p, s) ==
    Len(p) <= Len(s) /\ \A i \in 1..Len(p) : s[i] = p[i]

UpperLetters ==
    <<"A","B","C","D","E","F","G","H","I","J","K","L","M",
      "N","O","P","Q","R","S","T","U","V","W","X","Y","Z">>

LowerLetters ==
    <<"a","b","c","d","e","f","g","h","i","j","k","l","m",
      "n","o","p","q","r","s","t","u","v","w","x","y","z">>

Digits ==
    {"0","1","2","3","4","5","6","7","8","9"}

Letters ==
    {UpperLetters[i] : i \in 1..26} \cup {LowerLetters[i] : i \in 1..26}

LowerChar(c) ==
    IF \E i \in 1..26 : UpperLetters[i] = c
    THEN LowerLetters[CHOOSE i \in 1..26 : UpperLetters[i] = c]
    ELSE c

\* str.lower()
Lower(s) ==
    [i \in 1..Len(s) |-> LowerChar(s[i])]

(***************************************************************************)
(* Constants of the program.                                               *)
(***************************************************************************)
MAX_MODULE_NAME_LENGTH == 50
MAX_SCRIPT_SIZE == 10485760
MAX_META_SIZE == 102400

(***************************************************************************)
(* Names and the directories of the program.                               *)
(***************************************************************************)
N_h ==
    <<"h">>

N_modules ==
    <<"m","o","d","u","l","e","s">>

N_modules_evil ==
    <<"m","o","d","u","l","e","s","-","e","v","i","l">>

N_local ==
    <<"l","o","c","a","l">>

N_bundled ==
    <<"b","u","n","d","l","e","d">>

N_community ==
    <<"c","o","m","m","u","n","i","t","y">>

N_etc ==
    <<"e","t","c">>

N_x ==
    <<"x">>

FOTO_DIR ==
    <<N_h>>

MODULES_DIR ==
    Append(FOTO_DIR, N_modules)

LOCAL_MODULES_DIR ==
    Append(MODULES_DIR, N_local)

BUNDLED_MODULES_DIR ==
    Append(MODULES_DIR, N_bundled)

COMMUNITY_MODULES_DIR ==
    Append(MODULES_DIR, N_community)

N_meta_json ==
    <<"m","e","t","a",".","j","s","o","n">>

N_script_sh ==
    <<"s","c","r","i","p","t",".","s","h">>

N_script_ps1 ==
    <<"s","c","r","i","p","t",".","p","s","1">>

N_footo_log ==
    <<"f","o","o","t","o",".","l","o","g">>

LOG_FILE ==
    Append(FOTO_DIR, N_footo_log)

(***************************************************************************)
(* validate_module_name                                                    *)
(***************************************************************************)
NameClass ==
    Letters \cup Digits \cup {"_", "-"}

\* re.match(r'^[a-zA-Z0-9_-]+$', name): '+' takes the longest run of class
\* characters from the start; '$' then matches at the end of the string or
\* just before a newline that is the last character of the string.
NameRegexMatches(name) ==
    LET run == IF \E i \in 1..Len(name) : name[i] \notin NameClass
               THEN (CHOOSE i \in 1..Len(name) :
                        /\ name[i] \notin NameClass
                        /\ \A j \in 1..(i - 1) : name[j] \in NameClass) - 1
               ELSE Len(name)
    IN  /\ run >= 1
        /\ \/ run = Len(name)
           \/ run = Len(name) - 1 /\ name[Len(name)] = "\n"

reserved_names ==
    { <<"c","o","n">>, <<"p","r","n">>, <<"a","u","x">>, <<"n","u","l">>,
      <<"c","o","m","1">>, <<"c","o","m","2">>, <<"c","o","m","3">>, <<"c","o","m","4">>,
      <<"l","p","t","1">>, <<"l","p","t","2">>, <<"l","p","t","3">>, <<"l","p","t","4">> }

\* The result of validate_module_name: the name, or the ValidationError.
validate_module_name(name) ==
    IF name = <<>>
    THEN [ok |-> FALSE, err |-> "ValidationError", msg |-> "empty", value |-> <<>>]
    ELSE IF Len(name) > MAX_MODULE_NAME_LENGTH
    THEN [ok |-> FALSE, err |-> "ValidationError", msg |-> "too long", value |-> <<>>]
    ELSE IF ~NameRegexMatches(name)
    THEN [ok |-> FALSE, err |-> "ValidationError", msg |-> "characters", value |-> <<>>]
    ELSE IF Lower(name) \in reserved_names
    THEN [ok |-> FALSE, err |-> "ValidationError", msg |-> "reserved", value |-> <<>>]
    ELSE [ok |-> TRUE, err |-> "", msg |-> "", value |-> name]

(***************************************************************************)
(* Paths and the file-system tree.                                         *)
(***************************************************************************)
DotDot ==
    <<".", ".">>

Dot ==
    <<".">>

Parent(p) ==
    IF p = <<>> THEN <<>> ELSE SubSeq(p, 1, Len(p) - 1)

\* str(path): the components, each after a "/"; the root is "/".
RECURSIVE StrFrom(_)
StrFrom(p) ==
    IF p = <<>> THEN <<>> ELSE <<"/">> \o Head(p) \o StrFrom(Tail(p))

Str(p) ==
    IF p = <<>> THEN <<"/">> ELSE StrFrom(p)

\* Permission bits.
Mode0600 ==
    {"ur", "uw"}

Mode0700 ==
    {"ur", "uw", "ux"}

ModeDirDefault ==
    {"ur", "uw", "ux", "gr", "gx", "or", "ox"}

ModeFileDefault ==
    {"ur", "uw", "gr", "or"}

RequiredFieldNames ==
    {"name", "version", "description", "lang", "entry"}

\* A JSON value of a descriptor field: a string, something that is not one
\* and is true in a condition (a number other than 0), or null.
StrVal(s) ==
    [t |-> "str", v |-> s]

OtherVal ==
    [t |-> "other", v |-> <<>>]

NullVal ==
    [t |-> "null", v |-> <<>>]

\* bool(value)
Truthy(value) ==
    CASE value.t = "str" -> value.v # <<>>
      [] value.t = "other" -> TRUE
      [] OTHER -> FALSE

\* File contents: json is "text" (not a descriptor), "unparsable", "number",
\* or "object" with its <<key, value>> pairs in obj.
NoData ==
    [json |-> "text", obj |-> {}]

ObjectData(pairs) ==
    [json |-> "object", obj |-> pairs]

\* The keys of a descriptor object, and the value under a key it has.
Keys(meta) ==
    {p[1] : p \in meta.obj}

Get(meta, key) ==
    (CHOOSE p \in meta.obj : p[1] = key)[2]

NoNode ==
    [kind |-> "none", target |-> <<>>, mode |-> {}, data |-> NoData, size |-> 0]

DirNode(mode) ==
    [kind |-> "dir", target |-> <<>>, mode |-> mode, data |-> NoData, size |-> 0]

FileNode(mode, data, size) ==
    [kind |-> "file", target |-> <<>>, mode |-> mode, data |-> data, size |-> size]

LinkNode(target) ==
    [kind |-> "link", target |-> target, mode |-> {}, data |-> NoData, size |-> 0]

\* The host of the earlier sections: a privileged process, a file system
\* that keeps permission bits.
PrivilegedHost ==
    [privileged |-> TRUE, chmod |-> TRUE]

\* Every host.
HostInputs ==
    [privileged : BOOLEAN, chmod : BOOLEAN]

\* The permission tests of the kernel on a directory that is searched and
\* on a node that is written.
MaySearch(node) ==
    host.privileged \/ "ux" \in node.mode

MayWrite(node) ==
    host.privileged \/ "uw" \in node.mode

\* fs with node n at physical path p.
Put(f, p, n) ==
    [q \in (DOMAIN f) \cup {p} |-> IF q = p THEN n ELSE f[q]]

IsRealDir(f, p) ==
    p \in DOMAIN f /\ f[p].kind = "dir"

\* The kernel's path walk: every component before the last must lead to an
\* existing directory, ".." goes to the physical parent, symbolic links are
\* followed (the last one only if followLast), and the process may search
\* every directory on the way.  [ok, path, why]: whether an entry is there,
\* its physical path, and the errno when there is none.
RECURSIVE Walk(_, _, _, _, _)
Walk(f, cur, rest, fuel, followLast) ==
    IF rest = <<>>
    THEN [ok |-> cur \in DOMAIN f, path |-> cur,
          why |-> IF cur \in DOMAIN f THEN "" ELSE "ENOENT"]
    ELSE IF ~IsRealDir(f, cur)
    THEN [ok |-> FALSE, path |-> cur,
          why |-> IF cur \in DOMAIN f THEN "ENOTDIR" ELSE "ENOENT"]
    ELSE IF ~MaySearch(f[cur])
    THEN [ok |-> FALSE, path |-> cur, why |-> "EACCES"]
    ELSE LET c == Head(rest)
             t == Tail(rest)
             cand == Append(cur, c)
         IN  IF c = DotDot THEN Walk(f, Parent(cur), t, fuel, followLast)
             ELSE IF c = Dot THEN Walk(f, cur, t, fuel, followLast)
             ELSE IF /\ cand \in DOMAIN f
                     /\ f[cand].kind = "link"
                     /\ (t # <<>> \/ followLast)
             THEN IF fuel = 0 THEN [ok |-> FALSE, path |-> cand, why |-> "ELOOP"]
                  ELSE Walk(f, <<>>, f[cand].target \o t, fuel - 1, followLast)
             ELSE Walk(f, cand, t, fuel, followLast)

\* os.stat and os.lstat: the node, or NoNode.
Stat(f, p) ==
    LET w == Walk(f, <<>>, p, MaxLinkDepth, TRUE)
    IN  IF w.ok THEN f[w.path] ELSE NoNode

LStat(f, p) ==
    LET w == Walk(f, <<>>, p, MaxLinkDepth, FALSE)
    IN  IF w.ok THEN f[w.path] ELSE NoNode

\* os.stat(p) fails with EACCES: Path.exists, Path.is_dir and
\* Path.is_symlink raise PermissionError then (they answer False only for a
\* missing entry, a component that is no directory and a loop of links).
Denied(f, p) ==
    Walk(f, <<>>, p, MaxLinkDepth, TRUE).why = "EACCES"

\* Path.exists, Path.is_dir, Path.is_symlink, where os.stat is not denied.
Exists(f, p) ==
    Stat(f, p).kind # "none"

IsDir(f, p) ==
    Stat(f, p).kind = "dir"

IsSymlink(f, p) ==
    LStat(f, p).kind = "link"

\* Path.resolve() (os.path.realpath, not strict): ".." pops the resolved
\* path, a component that is a symbolic link is replaced by its target, a
\* component that does not exist is kept as written.  ok is FALSE for a chain
\* of links longer than the walk allows (a loop).
RECURSIVE ResolveFrom(_, _, _, _)
ResolveFrom(f, cur, rest, fuel) ==
    IF rest = <<>> THEN [ok |-> TRUE, path |-> cur]
    ELSE LET c == Head(rest)
             t == Tail(rest)
             cand == Append(cur, c)
         IN  IF c = DotDot THEN ResolveFrom(f, Parent(cur), t, fuel)
             ELSE IF c = Dot THEN ResolveFrom(f, cur, t, fuel)
             ELSE IF cand \in DOMAIN f /\ f[cand].kind = "link"
             THEN IF fuel = 0 THEN [ok |-> FALSE, path |-> cand]
                  ELSE ResolveFrom(f, <<>>, f[cand].target \o t, fuel - 1)
             ELSE ResolveFrom(f, cand, t, fuel)

Resolve(f, p) ==
    ResolveFrom(f, <<>>, p, MaxLinkDepth)

(***************************************************************************)
(* validate_path                                                           *)
(***************************************************************************)
SecurityFailure(msg) ==
    [ok |-> FALSE, err |-> "SecurityError", msg |-> msg, value |-> <<>>]

\* The test that the resolved path lies under the allowed directory.
UnderAllowed(resolved, allowed) ==
    StartsWith(Str(resolved), Str(allowed))

validate_path(f, path, allowed_parent) ==
    LET resolved == Resolve(f, path)
        allowed == Resolve(f, allowed_parent)
    IN  IF ~resolved.ok \/ ~allowed.ok
        THEN SecurityFailure("Path validation failed: Symlink loop")
        ELSE IF ~UnderAllowed(resolved.path, allowed.path)
        THEN SecurityFailure("Path validation failed: outside allowed directory")
        ELSE IF IsSymlink(f, path)
        THEN SecurityFailure("Path validation failed: Symlinks are not allowed")
        ELSE [ok |-> TRUE, err |-> "", msg |-> "", value |-> resolved.path]

(***************************************************************************)
(* Changes of the tree: mkdir, chmod, open(..., 'w').                      *)
(***************************************************************************)
\* os.mkdir: the new directory goes under the existing directory its parent
\* path leads to, and any entry already under that name is an error.
os_mkdir(f, path) ==
    LET w == Walk(f, <<>>, Parent(path), MaxLinkDepth, TRUE)
        target == Append(w.path, path[Len(path)])
    IN  IF path = <<>> THEN [fs |-> f, err |-> "FileExistsError"]
        ELSE IF ~w.ok
        THEN [fs |-> f, err |-> CASE w.why = "ENOENT" -> "FileNotFoundError"
                                  [] w.why = "EACCES" -> "PermissionError"
                                  [] OTHER -> "OSError"]
        ELSE IF f[w.path].kind # "dir" THEN [fs |-> f, err |-> "NotADirectoryError"]
        ELSE IF ~MaySearch(f[w.path]) THEN [fs |-> f, err |-> "PermissionError"]
        ELSE IF target \in DOMAIN f THEN [fs |-> f, err |-> "FileExistsError"]
        ELSE IF ~MayWrite(f[w.path]) THEN [fs |-> f, err |-> "PermissionError"]
        ELSE [fs |-> Put(f, target, DirNode(ModeDirDefault)), err |-> ""]

\* Path.mkdir(parents, exist_ok)
RECURSIVE mkdir(_, _, _, _)
mkdir(f, path, parents, exist_ok) ==
    LET r == os_mkdir(f, path)
    IN  IF r.err = "" THEN r
        ELSE IF r.err = "FileNotFoundError"
        THEN IF ~parents \/ path = <<>> THEN r
             ELSE LET pr == mkdir(f, Parent(path), TRUE, TRUE)
                  IN  IF pr.err # "" THEN pr
                      ELSE mkdir(pr.fs, path, FALSE, exist_ok)
        ELSE IF ~exist_ok \/ ~IsDir(f, path) THEN r
        ELSE [fs |-> f, err |-> ""]

\* Path.chmod (it follows symbolic links).
chmod(f, path, mode) ==
    LET w == Walk(f, <<>>, path, MaxLinkDepth, TRUE)
    IN  IF ~w.ok
        THEN [fs |-> f, err |-> IF w.why = "EACCES" THEN "PermissionError"
                                ELSE "FileNotFoundError"]
        ELSE IF ~host.chmod THEN [fs |-> f, err |-> "PermissionError"]
        ELSE [fs |-> [f EXCEPT ![w.path].mode = mode], err |-> ""]

\* open(path, 'w') and a write of data: an existing file is replaced (its
\* mode kept); otherwise the file is created where the path leads (through
\* a dangling link to the link's target), in an existing directory; the
\* process may write the file it replaces, or search and write the directory
\* it creates the file in.
write_file(f, path, data, size) ==
    LET w == Walk(f, <<>>, path, MaxLinkDepth, TRUE)
        r == Resolve(f, path)
        pw == Walk(f, <<>>, Parent(r.path), MaxLinkDepth, TRUE)
    IN  IF w.ok
        THEN IF f[w.path].kind = "dir" THEN [fs |-> f, err |-> "IsADirectoryError"]
             ELSE IF ~MayWrite(f[w.path]) THEN [fs |-> f, err |-> "PermissionError"]
             ELSE [fs |-> [f EXCEPT ![w.path].data = data, ![w.path].size = size],
                   err |-> ""]
        ELSE IF w.why = "EACCES" \/ pw.why = "EACCES"
        THEN [fs |-> f, err |-> "PermissionError"]
        ELSE IF ~r.ok \/ r.path = <<>> \/ ~pw.ok \/ f[pw.path].kind # "dir"
        THEN [fs |-> f, err |-> "FileNotFoundError"]
        ELSE IF ~MaySearch(f[pw.path]) \/ ~MayWrite(f[pw.path])
        THEN [fs |-> f, err |-> "PermissionError"]
        ELSE [fs |-> Put(f, Append(pw.path, r.path[Len(r.path)]),
                         FileNode(ModeFileDefault, data, size)),
              err |-> ""]

\* set_secure_permissions: 0700 for a script, 0600 for anything else; a
\* failure is logged and not raised.
set_secure_permissions(f, path, is_script) ==
    chmod(f, path, IF is_script THEN Mode0700 ELSE Mode0600).fs

(***************************************************************************)
(* validate_file_size and load_and_validate_meta                           *)
(***************************************************************************)
\* TRUE when the gate lets the file through: a file that does not exist
\* passes, an existing one passes unless its size exceeds max_size.
validate_file_size(f, file_path, max_size) ==
    IF ~Exists(f, file_path) THEN TRUE
    ELSE ~(Stat(f, file_path).size > max_size)

S_bash ==
    <<"b","a","s","h">>

S_pwsh ==
    <<"p","w","s","h">>

S_dot_sh ==
    <<".","s","h">>

S_dot_ps1 ==
    <<".","p","s","1">>

\* The required fields looked up from the last to the first.
required_fields_reversed ==
    <<"entry", "lang", "description", "version", "name">>

required_fields ==
    <<"name", "version", "description", "lang", "entry">>

RECURSIVE DigitRun(_, _)
DigitRun(s, i) ==
    IF i <= Len(s) /\ s[i] \in Digits THEN 1 + DigitRun(s, i + 1) ELSE 0

\* re.match(r'^\d+\.\d+\.\d+$', version): three greedy digit runs separated
\* by dots, then '$': the end of the string or a final newline.
VersionRegexMatches(s) ==
    LET a == DigitRun(s, 1)
        b == DigitRun(s, a + 2)
        c == DigitRun(s, a + b + 3)
        end == a + b + c + 2
    IN  /\ a >= 1
        /\ a + 1 <= Len(s) /\ s[a + 1] = "."
        /\ b >= 1
        /\ a + b + 2 <= Len(s) /\ s[a + b + 2] = "."
        /\ c >= 1
        /\ \/ end = Len(s)
           \/ end = Len(s) - 1 /\ s[Len(s)] = "\n"

valid_extensions(lang) ==
    IF lang = S_bash THEN S_dot_sh ELSE S_dot_ps1

InvalidModule(msg) ==
    [ok |-> FALSE, err |-> "InvalidModuleError", msg |-> msg, value |-> NoData]

\* An exception caught by the handler's last clause, "except Exception".
Wrapped(msg) ==
    InvalidModule(<<"Metadata validation failed: ">> \o msg)

\* The required fields that meta lacks, in the order they are checked.
MissingFields(meta, fields) ==
    SelectSeq(fields, LAMBDA fld : fld \notin Keys(meta))

load_and_validate_meta(f, meta_file) ==
    LET node == Stat(f, meta_file)
        meta == node.data
    IN  IF ~validate_file_size(f, meta_file, MAX_META_SIZE)
        THEN Wrapped(<<"File exceeds maximum size">>)
        ELSE IF node.kind = "none" THEN Wrapped(<<"No such file or directory">>)
        ELSE IF node.kind = "dir" THEN Wrapped(<<"Is a directory">>)
        ELSE IF meta.json = "unparsable" THEN InvalidModule(<<"Invalid JSON in file">>)
        ELSE IF meta.json # "object" THEN Wrapped(<<"argument is not iterable">>)
        ELSE IF MissingFields(meta, required_fields) # <<>>
        THEN Wrapped(<<"Missing required field: ",
                       Head(MissingFields(meta, required_fields))>>)
        ELSE IF Get(meta, "lang") \notin {StrVal(S_bash), StrVal(S_pwsh)}
        THEN Wrapped(<<"Unsupported language">>)
        ELSE IF Get(meta, "version").t # "str"
        THEN Wrapped(<<"expected string or bytes-like object">>)
        ELSE IF ~VersionRegexMatches(Get(meta, "version").v)
        THEN Wrapped(<<"Invalid version format">>)
        ELSE IF Get(meta, "entry").t # "str"
        THEN Wrapped(<<"object has no attribute 'endswith'">>)
        ELSE IF ~EndsWith(Get(meta, "entry").v, valid_extensions(Get(meta, "lang").v))
        THEN Wrapped(<<"Entry script must have the extension of its language">>)
        ELSE [ok |-> TRUE, err |-> "", msg |-> <<>>, value |-> meta]

(***************************************************************************)
(* Command synthesis: the line run_module prints.                          *)
(***************************************************************************)
\* The characters shlex.quote leaves alone: [\w@%+=:,./-] (ASCII).
ShlexSafe ==
    Letters \cup Digits \cup {"_", "@", "%", "+", "=", ":", ",", ".", "/", "-"}

\* s.replace("'", "'\"'\"'")
RECURSIVE ReplaceQuotes(_)
ReplaceQuotes(s) ==
    IF s = <<>> THEN <<>>
    ELSE IF Head(s) = "'" THEN <<"'", "\"", "'", "\"", "'">> \o ReplaceQuotes(Tail(s))
    ELSE <<Head(s)>> \o ReplaceQuotes(Tail(s))

shlex_quote(s) ==
    IF s = <<>> THEN <<"'", "'">>
    ELSE IF \A i \in 1..Len(s) : s[i] \in ShlexSafe THEN s
    ELSE <<"'">> \o ReplaceQuotes(s) \o <<"'">>

S_source ==
    <<"s","o","u","r","c","e">>

\* "source" for bash, "." for pwsh, nothing for another language.
command_prefix(script_lang) ==
    IF script_lang = S_bash THEN S_source
    ELSE IF script_lang = S_pwsh THEN <<".">>
    ELSE <<>>

\* f"{command_prefix} \"{entry_script_path}\" {' '.join(escaped_args)}"
sourcing_command(script_lang, entry_script_path, args) ==
    LET escaped_args == [i \in 1..Len(args) |-> shlex_quote(args[i])]
    IN  command_prefix(script_lang) \o <<" ", "\"">> \o Str(entry_script_path)
            \o <<"\"", " ">> \o JoinWith(<<" ">>, escaped_args)

(***************************************************************************)
(* setup_logging and initialize_directories                                *)
(***************************************************************************)
\* At import: the log directory is made if need be and the log file opened
\* for appending (created when it is not there).
setup_logging(f) ==
    LET d == mkdir(f, FOTO_DIR, TRUE, TRUE).fs
    IN  IF Exists(d, LOG_FILE) THEN d ELSE write_file(d, LOG_FILE, NoData, 1).fs

scope_dirs ==
    <<LOCAL_MODULES_DIR, BUNDLED_MODULES_DIR, COMMUNITY_MODULES_DIR>>

\* One round of the loop of initialize_directories.
initialize_directory(f, dir_path) ==
    LET r == mkdir(f, dir_path, TRUE, TRUE)
    IN  IF r.err # "" THEN [fs |-> r.fs, err |-> "FootoError"]
        ELSE IF IsSymlink(r.fs, dir_path) THEN [fs |-> r.fs, err |-> "SecurityError"]
        ELSE IF ~IsDir(r.fs, dir_path) THEN [fs |-> r.fs, err |-> "SecurityError"]
        ELSE [fs |-> set_secure_permissions(r.fs, dir_path, FALSE), err |-> ""]

RECURSIVE initialize_from(_, _)
initialize_from(f, dirs) ==
    IF dirs = <<>> THEN [fs |-> f, err |-> ""]
    ELSE LET r == initialize_directory(f, Head(dirs))
         IN  IF r.err # "" THEN r ELSE initialize_from(r.fs, Tail(dirs))

initialize_directories(f) ==
    initialize_from(f, scope_dirs)

(***************************************************************************)
(* find_module                                                             *)
(***************************************************************************)
\* The search with the bundled scope before the local one.
search_paths_bundled_first(module_name) ==
    << [path |-> Append(BUNDLED_MODULES_DIR, module_name), scope |-> "bundled"],
       [path |-> Append(LOCAL_MODULES_DIR, module_name), scope |-> "local"] >>

search_paths(module_name) ==
    << [path |-> Append(LOCAL_MODULES_DIR, module_name), scope |-> "local"],
       [path |-> Append(BUNDLED_MODULES_DIR, module_name), scope |-> "bundled"] >>

NotFound ==
    [err |-> "", path |-> <<>>, scope |-> "none"]

\* The loop over the search paths: the first candidate that exists, is a
\* directory and passes validate_path; the PermissionError of
\* module_path.exists() leaves the loop and find_module.
RECURSIVE find_in(_, _)
find_in(f, paths) ==
    IF paths = <<>> THEN NotFound
    ELSE LET module_path == Head(paths).path
         IN  IF Denied(f, module_path)
             THEN [err |-> "PermissionError", path |-> <<>>, scope |-> "none"]
             ELSE IF /\ Exists(f, module_path)
                /\ IsDir(f, module_path)
                /\ validate_path(f, module_path, MODULES_DIR).ok
             THEN [err |-> "", path |-> module_path, scope |-> Head(paths).scope]
             ELSE find_in(f, Tail(paths))

find_module(f, module_name) ==
    IF ~validate_module_name(module_name).ok
    THEN [err |-> "ValidationError", path |-> <<>>, scope |-> "none"]
    ELSE find_in(f, search_paths(module_name))

(***************************************************************************)
(* run_module                                                              *)
(***************************************************************************)
\* The components of a path written as a string: split at "/", with empty
\* components and "." dropped.
RECURSIVE SplitSlash(_, _, _)
SplitSlash(s, cur, acc) ==
    LET keep == IF cur = <<>> \/ cur = Dot THEN acc ELSE Append(acc, cur)
    IN  IF s = <<>> THEN keep
        ELSE IF Head(s) = "/" THEN SplitSlash(Tail(s), <<>>, keep)
        ELSE SplitSlash(Tail(s), Append(cur, Head(s)), acc)

\* module_dir / name: an absolute name replaces the directory.
PathJoin(dir, name) ==
    IF name # <<>> /\ name[1] = "/" THEN SplitSlash(name, <<>>, <<>>)
    ELSE dir \o SplitSlash(name, <<>>, <<>>)

RunFailure(stage, err, found) ==
    [exit |-> 1, stdout |-> <<>>, err |-> err, stage |-> stage, found |-> found]

\* A run without the script size gate.
script_size_unchecked(f, entry_script_path) ==
    TRUE

\* The script size gate of run_module.
script_size_ok(f, entry_script_path) ==
    validate_file_size(f, entry_script_path, MAX_SCRIPT_SIZE)

run_module(f, module_name, args) ==
    LET found == find_module(f, module_name)
        module_dir == found.path
        meta_file == Append(module_dir, N_meta_json)
        loaded == load_and_validate_meta(f, meta_file)
        meta == loaded.value
        script_lang == Get(meta, "lang").v
        entry_script_name == Get(meta, "entry").v
        entry_script_path == PathJoin(module_dir, entry_script_name)
    IN  IF ~validate_module_name(module_name).ok
        THEN RunFailure("name", "ValidationError", NotFound)
        ELSE IF found.err # ""
        THEN RunFailure("find", found.err, found)
        ELSE IF module_dir = <<>>
        THEN RunFailure("find", "ModuleNotFoundError", found)
        ELSE IF ~Exists(f, meta_file)
        THEN RunFailure("meta_exists", "InvalidModuleError", found)
        ELSE IF ~loaded.ok
        THEN RunFailure("meta_valid", "InvalidModuleError", found)
        ELSE IF script_lang = <<>> \/ entry_script_name = <<>>
        THEN RunFailure("lang_entry", "InvalidModuleError", found)
        ELSE IF ~Exists(f, entry_script_path)
        THEN RunFailure("entry_exists", "InvalidModuleError", found)
        ELSE IF ~script_size_ok(f, entry_script_path)
        THEN RunFailure("entry_size", "SecurityError", found)
        ELSE IF command_prefix(script_lang) = <<>>
        THEN RunFailure("lang", "InvalidModuleError", found)
        ELSE [exit |-> 0,
              stdout |-> sourcing_command(script_lang, entry_script_path, args) \o <<"\n">>,
              err |-> "", stage |-> "", found |-> found]

(***************************************************************************)
(* safe_open_editor                                                        *)
(***************************************************************************)
\* shlex.split(s): words separated by white space; quotes group and are
\* removed; a backslash escapes the next character (inside double quotes
\* only a double quote or a backslash).  err is "ValueError" for a quote
\* that is not closed and for a backslash at the end.
RECURSIVE ShlexScan(_, _, _, _, _, _)
ShlexScan(s, i, mode, cur, inword, words) ==
    IF i > Len(s)
    THEN IF mode = "plain"
         THEN [err |-> "", words |-> IF inword THEN Append(words, cur) ELSE words]
         ELSE [err |-> "ValueError", words |-> <<>>]
    ELSE LET c == s[i]
             next == IF i < Len(s) THEN s[i + 1] ELSE ""
             fail == [err |-> "ValueError", words |-> <<>>]
         IN
         IF mode = "plain" THEN
            IF c \in {" ", "\t", "\r", "\n"}
            THEN ShlexScan(s, i + 1, "plain", <<>>, FALSE,
                           IF inword THEN Append(words, cur) ELSE words)
            ELSE IF c = "'" THEN ShlexScan(s, i + 1, "sq", cur, TRUE, words)
            ELSE IF c = "\"" THEN ShlexScan(s, i + 1, "dq", cur, TRUE, words)
            ELSE IF c = "\\" THEN
                IF i = Len(s) THEN fail
                ELSE ShlexScan(s, i + 2, "plain", Append(cur, next), TRUE, words)
            ELSE ShlexScan(s, i + 1, "plain", Append(cur, c), TRUE, words)
         ELSE IF mode = "sq" THEN
            IF c = "'" THEN ShlexScan(s, i + 1, "plain", cur, TRUE, words)
            ELSE ShlexScan(s, i + 1, "sq", Append(cur, c), TRUE, words)
         ELSE
            IF c = "\"" THEN ShlexScan(s, i + 1, "plain", cur, TRUE, words)
            ELSE IF c = "\\" THEN
                IF i = Len(s) THEN fail
                ELSE IF next \in {"\"", "\\"}
                THEN ShlexScan(s, i + 2, "dq", Append(cur, next), TRUE, words)
                ELSE ShlexScan(s, i + 2, "dq", cur \o <<c, next>>, TRUE, words)
            ELSE ShlexScan(s, i + 1, "dq", Append(cur, c), TRUE, words)

shlex_split(s) ==
    ShlexScan(s, 1, "plain", <<>>, FALSE, <<>>)

safe_editors ==
    { <<"n","a","n","o">>, <<"v","i","m">>, <<"v","i">>, <<"e","m","a","c","s">>,
      <<"c","o","d","e">>, <<"n","o","t","e","p","a","d">>,
      <<"n","o","t","e","p","a","d","+","+">>, <<"s","u","b","l">>,
      <<"s","u","b","l","i","m","e">>, <<"a","t","o","m">>, <<"g","e","d","i","t">>,
      <<"k","a","t","e">>, <<"m","i","c","r","o">>, <<"j","o","e">>, <<"n","e">> }

S_dot_exe ==
    <<".","e","x","e">>

\* s.replace('.exe', '')
RECURSIVE RemoveExe(_)
RemoveExe(s) ==
    IF s = <<>> THEN <<>>
    ELSE IF StartsWith(s, S_dot_exe) THEN RemoveExe(SubSeq(s, 5, Len(s)))
    ELSE <<Head(s)>> \o RemoveExe(Tail(s))

\* Path(word).name: the last component, empty when there is none.
PathName(word) ==
    LET parts == SplitSlash(word, <<>>, <<>>)
    IN  IF parts = <<>> THEN <<>> ELSE parts[Len(parts)]

\* What subprocess.run did, and what safe_open_editor makes of it.
EditorOutcomes ==
    {"exit_zero", "exit_nonzero", "timeout", "not_found", "os_error"}

\* editor: the value of EDITOR ([set, value]); outcome: what running it
\* does.  raised is the exception that leaves the function, if any.
safe_open_editor(editor, outcome) ==
    LET editor_parts == shlex_split(editor.value)
        editor_name == RemoveExe(Lower(PathName(editor_parts.words[1])))
    IN  IF ~editor.set \/ editor.value = <<>>
        THEN [raised |-> "", value |-> FALSE, ran |-> FALSE]
        ELSE IF editor_parts.err # ""
        THEN [raised |-> "ValueError", value |-> FALSE, ran |-> FALSE]
        ELSE IF editor_parts.words = <<>>
        THEN [raised |-> "IndexError", value |-> FALSE, ran |-> FALSE]
        ELSE IF editor_name \notin safe_editors
        THEN [raised |-> "", value |-> FALSE, ran |-> FALSE]
        ELSE [raised |-> "", value |-> outcome \in {"exit_zero", "timeout"}, ran |-> TRUE]

(***************************************************************************)
(* create_module                                                           *)
(***************************************************************************)
S_0_1_0 ==
    <<"0",".","1",".","0">>

\* The descriptor create_module writes.
meta_content(module_name) ==
    ObjectData({ <<"name", StrVal(module_name)>>,
                 <<"version", StrVal(S_0_1_0)>>,
                 <<"description", StrVal(<<"A new module.">>)>>,
                 <<"lang", StrVal(S_bash)>>,
                 <<"entry", StrVal(N_script_sh)>> })

CreateResult(f, exit, err, stage, stdout, found, editor) ==
    [fs |-> f, exit |-> exit, err |-> err, stage |-> stage, stdout |-> stdout,
     found |-> found, editor |-> editor]

\* A create without the collision check.
never_exists(f, module_name) ==
    FALSE

\* The name is taken when find_module resolves it.
already_exists(f, module_name) ==
    find_module(f, module_name).path # <<>>

\* A directory creation that accepts a directory already there.
create_mkdir_exist_ok(f, module_path) ==
    mkdir(f, module_path, TRUE, TRUE)

\* module_path.mkdir(parents=True, exist_ok=False)
create_mkdir(f, module_path) ==
    mkdir(f, module_path, TRUE, FALSE)

\* editor in the result: "not_reached", or how safe_open_editor ended:
\* "opened" (True), "not_opened" (False), "raised".
create_module(f, module_name, editor, outcome) ==
    LET module_path == Append(LOCAL_MODULES_DIR, module_name)
        found == find_module(f, module_name)
        made == create_mkdir(f, module_path)
        f1 == set_secure_permissions(made.fs, module_path, FALSE)
        meta_file == Append(module_path, N_meta_json)
        wrote_meta == write_file(f1, meta_file, meta_content(module_name), 117)
        f2 == set_secure_permissions(wrote_meta.fs, meta_file, FALSE)
        script_file == Append(module_path, N_script_sh)
        wrote_script == write_file(f2, script_file, NoData, 208)
        f3 == set_secure_permissions(wrote_script.fs, script_file, TRUE)
        opened == safe_open_editor(editor, outcome)
        announced == <<"Creating new module">>
        succeeded == announced \o <<"created successfully">>
        no == "not_reached"
    IN  IF ~validate_module_name(module_name).ok
        THEN CreateResult(f, 1, "ValidationError", "name", <<>>, NotFound, no)
        ELSE IF found.err # ""
        THEN CreateResult(f, 1, found.err, "find", <<>>, found, no)
        ELSE IF already_exists(f, module_name)
        THEN CreateResult(f, 1, "FootoError", "exists", <<>>, found, no)
        ELSE IF made.err # ""
        THEN CreateResult(made.fs, 1, made.err, "mkdir", announced, found, no)
        ELSE IF wrote_meta.err # ""
        THEN CreateResult(wrote_meta.fs, 1, wrote_meta.err, "meta", announced, found, no)
        ELSE IF wrote_script.err # ""
        THEN CreateResult(wrote_script.fs, 1, wrote_script.err, "script", announced,
                          found, no)
        ELSE IF opened.raised # ""
        THEN CreateResult(f3, 1, opened.raised, "editor", succeeded, found, "raised")
        ELSE IF opened.value
        THEN CreateResult(f3, 0, "", "", succeeded, found, "opened")
        ELSE CreateResult(f3, 0, "", "", succeeded \o <<"Edit your module files at">>,
                          found, "not_opened")

(***************************************************************************)
(* list_modules                                                            *)
(***************************************************************************)
\* The characters of the names of the model in the order of their codes.
CharOrder ==
    <<"\n", " ", "-", ".", "/", "0", "1", "2", "3", "4", "5", "6", "7", "8", "9",
      "A", "B", "C", "D", "E", "F", "G", "H", "I", "J", "K", "L", "M", "N", "O", "P",
      "Q", "R", "S", "T", "U", "V", "W", "X", "Y", "Z", "_",
      "a", "b", "c", "d", "e", "f", "g", "h", "i", "j", "k", "l", "m", "n", "o", "p",
      "q", "r", "s", "t", "u", "v", "w", "x", "y", "z">>

Ord(c) ==
    CHOOSE i \in 1..Len(CharOrder) : CharOrder[i] = c

\* a < b for strings, as sorted() compares the names of the entries of one
\* directory.
RECURSIVE NameLess(_, _)
NameLess(a, b) ==
    IF b = <<>> THEN FALSE
    ELSE IF a = <<>> THEN TRUE
    ELSE IF Head(a) = Head(b) THEN NameLess(Tail(a), Tail(b))
    ELSE Ord(Head(a)) < Ord(Head(b))

\* sorted(names)
RECURSIVE SortNames(_)
SortNames(names) ==
    IF names = {} THEN <<>>
    ELSE LET least == CHOOSE a \in names : \A b \in names \ {a} : NameLess(a, b)
         IN  <<least>> \o SortNames(names \ {least})

\* scope_dir.iterdir(): the names of the entries of the directory.
iterdir(f, dir_path) ==
    LET w == Walk(f, <<>>, dir_path, MaxLinkDepth, TRUE)
    IN  {p[Len(p)] : p \in {q \in DOMAIN f : q # <<>> /\ Parent(q) = w.path}}

\* A line of the listing: what it says (kind), for which scope and which
\* entry of the scope directory, and the name and version it shows.
ListLine(kind, scope_name, dir_name, name, version) ==
    [kind |-> kind, scope |-> scope_name, dir |-> dir_name, name |-> name,
     version |-> version]

ScopeLine(kind, scope_name) ==
    ListLine(kind, scope_name, <<>>, <<>>, <<>>)

\* Lines printed, and the exception that ended the printing, if any.
Printed(lines) ==
    [lines |-> lines, err |-> ""]

Raised(lines, err) ==
    [lines |-> lines, err |-> err]

\* One piece of printing after another: an exception in the first ends it.
Then(first, second) ==
    IF first.err # "" THEN first
    ELSE [lines |-> first.lines \o second.lines, err |-> second.err]

\* The lines for a module directory whose meta.json exists, given what
\* load_and_validate_meta made of it.
list_loaded(loaded, scope_name, dir_name) ==
    LET meta == loaded.value
        desc == Get(meta, "description")
        shown == ListLine("module", scope_name, dir_name, Get(meta, "name"),
                          Get(meta, "version"))
    IN  IF ~loaded.ok
        THEN Printed(<<ListLine("invalid", scope_name, dir_name, dir_name, <<>>)>>)
        ELSE IF ~Truthy(desc) THEN Printed(<<shown>>)
        ELSE IF desc.t # "str" THEN Raised(<<shown>>, "TypeError")
        ELSE Printed(<<shown,
                       ListLine("description", scope_name, dir_name, desc.v, <<>>)>>)

\* The lines for one module directory.
list_module(f, module_dir, scope_name) ==
    IF ~Exists(f, Append(module_dir, N_meta_json))
    THEN Printed(<<ListLine("missing_meta", scope_name, module_dir[Len(module_dir)],
                            module_dir[Len(module_dir)], <<>>)>>)
    ELSE list_loaded(load_and_validate_meta(f, Append(module_dir, N_meta_json)),
                     scope_name, module_dir[Len(module_dir)])

\* The loop of print_modules_in_scope over the sorted entries.
RECURSIVE list_from(_, _, _, _, _)
list_from(f, scope_dir, scope_name, names, modules_found) ==
    IF names = <<>>
    THEN Printed(IF modules_found THEN <<>>
                 ELSE <<ScopeLine("no_modules_found", scope_name)>>)
    ELSE IF Denied(f, Append(scope_dir, Head(names)))
    THEN Printed(<<ScopeLine("permission_denied", scope_name)>>)
    ELSE IF ~IsDir(f, Append(scope_dir, Head(names)))
    THEN list_from(f, scope_dir, scope_name, Tail(names), modules_found)
    ELSE Then(list_module(f, Append(scope_dir, Head(names)), scope_name),
              list_from(f, scope_dir, scope_name, Tail(names), TRUE))

print_modules_in_scope(f, scope_dir, scope_name) ==
    Then(Printed(<<ScopeLine("scope", scope_name)>>),
         IF ~Exists(f, scope_dir)
         THEN Printed(<<ScopeLine("directory_not_found", scope_name)>>)
         ELSE IF ~IsDir(f, scope_dir)
         THEN Raised(<<>>, "NotADirectoryError")
         ELSE list_from(f, scope_dir, scope_name, SortNames(iterdir(f, scope_dir)),
                        FALSE))

\* The exit code main gives the process: an exception that leaves the
\* handler is caught by main, which exits with 1.
Exited(printed) ==
    [exit |-> IF printed.err = "" THEN 0 ELSE 1, stdout |-> printed.lines,
     err |-> printed.err]

list_modules(f) ==
    Exited(Then(Then(Printed(<<ScopeLine("available_modules", "")>>),
                     print_modules_in_scope(f, LOCAL_MODULES_DIR, "Local")),
                print_modules_in_scope(f, BUNDLED_MODULES_DIR, "Bundled")))

(***************************************************************************)
(* get_module_info                                                         *)
(***************************************************************************)
\* The lines of get_module_info for a descriptor that was loaded (the
\* descriptors of the model hold no "args" key).
info_loaded(loaded, found) ==
    IF ~loaded.ok
    THEN [exit |-> 1, stdout |-> <<>>, err |-> "InvalidModuleError"]
    ELSE [exit |-> 0,
          stdout |-> <<[kind |-> "info", scope |-> found.scope, path |-> found.path,
                        meta |-> loaded.value]>>,
          err |-> ""]

info_found(f, found) ==
    IF found.err # ""
    THEN [exit |-> 1, stdout |-> <<>>, err |-> found.err]
    ELSE IF found.path = <<>>
    THEN [exit |-> 1, stdout |-> <<>>, err |-> "ModuleNotFoundError"]
    ELSE IF ~Exists(f, Append(found.path, N_meta_json))
    THEN [exit |-> 1, stdout |-> <<>>, err |-> "InvalidModuleError"]
    ELSE info_loaded(load_and_validate_meta(f, Append(found.path, N_meta_json)), found)

get_module_info(f, module_name) ==
    IF ~validate_module_name(module_name).ok
    THEN [exit |-> 1, stdout |-> <<>>, err |-> "ValidationError"]
    ELSE info_found(f, find_module(f, module_name))

(***************************************************************************)
(* main: the command line                                                  *)
(***************************************************************************)
FOOTO_VERSION ==
    <<"1",".","1",".","0">>

T_version ==
    <<"-","-","v","e","r","s","i","o","n">>

T_h ==
    <<"-","h">>

T_help ==
    <<"-","-","h","e","l","p">>

T_create ==
    <<"c","r","e","a","t","e">>

T_run ==
    <<"r","u","n">>

T_list ==
    <<"l","i","s","t">>

T_info ==
    <<"i","n","f","o">>

\* subparsers.choices
choices ==
    {T_create, T_run, T_list, T_info}

\* What parse_args ends in: the namespace of a command (kind "command",
\* command "none" when there is none), or an exit of its own: the version
\* or the help printed (code 0), or a usage error (code 2).
Parsed(kind, command, name, args) ==
    [kind |-> kind, command |-> command, name |-> name, args |-> args]

ParserExit(kind) ==
    Parsed(kind, "none", <<>>, <<>>)

CommandOf(token) ==
    CASE token = T_create -> "create"
      [] token = T_run -> "run"
      [] token = T_list -> "list"
      [] token = T_info -> "info"

\* The parser of a command on the arguments after the command: -h prints
\* the help; any other option is not one of the parser's; the first
\* positional is the name (create, run, info), and for run everything after
\* it is args (nargs=REMAINDER); arguments left over, or no name, are a
\* usage error.
RECURSIVE sub_parse(_, _, _, _, _)
sub_parse(tokens, command, named, name, extras) ==
    IF tokens = <<>>
    THEN IF (command # "list" /\ ~named) \/ extras THEN ParserExit("usage_error")
         ELSE Parsed("command", command, name, <<>>)
    ELSE IF Head(tokens) \in {T_h, T_help} THEN ParserExit("help")
    ELSE IF Head(tokens)[1] = "-"
    THEN sub_parse(Tail(tokens), command, named, name, TRUE)
    ELSE IF command = "list" \/ named
    THEN sub_parse(Tail(tokens), command, named, name, TRUE)
    ELSE IF command = "run"
    THEN IF extras THEN ParserExit("usage_error")
         ELSE Parsed("command", command, Head(tokens), Tail(tokens))
    ELSE sub_parse(Tail(tokens), command, TRUE, Head(tokens), extras)

\* parser.parse_args(tokens): the options of the main parser (-h, --version)
\* act where they stand before the command; the command takes the rest.
RECURSIVE parse_args(_, _)
parse_args(tokens, extras) ==
    IF tokens = <<>>
    THEN IF extras THEN ParserExit("usage_error") ELSE Parsed("command", "none", <<>>, <<>>)
    ELSE IF Head(tokens) \in {T_h, T_help} THEN ParserExit("help")
    ELSE IF Head(tokens) = T_version THEN ParserExit("version")
    ELSE IF Head(tokens)[1] = "-" THEN parse_args(Tail(tokens), TRUE)
    ELSE IF Head(tokens) \notin choices THEN ParserExit("usage_error")
    ELSE IF extras /\ sub_parse(Tail(tokens), CommandOf(Head(tokens)), FALSE, <<>>,
                                FALSE).kind = "command"
    THEN ParserExit("usage_error")
    ELSE sub_parse(Tail(tokens), CommandOf(Head(tokens)), FALSE, <<>>, FALSE)

\* The arguments main parses: a first argument that is no command makes
\* them the arguments of run.
shorthand(argv) ==
    IF Len(argv) > 0 /\ argv[1] \notin choices THEN <<T_run>> \o argv ELSE argv

\* How the process ends: the tree, the exit code, what was reached (route)
\* and the standard output.
Ended(f, exit, route, stdout) ==
    [fs |-> f, exit |-> exit, route |-> route, stdout |-> stdout]

HandlerEnded(f, route, result) ==
    Ended(f, result.exit, route, result.stdout)

CreateEnded(result) ==
    Ended(result.fs, result.exit, "create", result.stdout)

\* The command of the parsed arguments is executed (EDITOR is not set).
dispatch(f, args) ==
    CASE args.kind = "version" ->
            Ended(f, 0, "version", <<<<"F","o","o","t","o"," ">> \o FOOTO_VERSION>>)
      [] args.kind = "help" -> Ended(f, 0, "help", <<>>)
      [] args.kind = "usage_error" -> Ended(f, 2, "usage_error", <<>>)
      [] args.command = "create" ->
            CreateEnded(create_module(f, args.name, [set |-> FALSE, value |-> <<>>],
                                      "exit_zero"))
      [] args.command = "run" -> HandlerEnded(f, "run", run_module(f, args.name, args.args))
      [] args.command = "list" -> HandlerEnded(f, "list", list_modules(f))
      [] args.command = "info" -> HandlerEnded(f, "info", get_module_info(f, args.name))
      [] OTHER -> Ended(f, 0, "help", <<>>)

\* main after initialize_directories, given how that ended.
main_initialized(init, argv) ==
    IF init.err # "" THEN Ended(init.fs, 1, "init", <<>>)
    ELSE dispatch(init.fs, parse_args(shorthand(argv), FALSE))

main(f, argv) ==
    main_initialized(initialize_directories(f), argv)

(***************************************************************************)
(* Specification of the name validator: every call of it on the inputs.    *)
(***************************************************************************)
NoFs ==
    <<>>

Idle ==
    [op |-> "none"]

NameAlphabet ==
    {"c", "o", "n", "N", "-", "/", "\n"}

NameInputs ==
    Strings(NameAlphabet, MaxNameLen)
    \cup reserved_names
    \cup {n \o <<"\n">> : n \in reserved_names}
    \cup {<<"C","O","N">>, <<"C","o","m","1">>, <<"L","P","T","4">>, <<"c","o","m","5">>}
    \cup {Rep("a", k) : k \in {MAX_MODULE_NAME_LENGTH - 1, MAX_MODULE_NAME_LENGTH,
                               MAX_MODULE_NAME_LENGTH + 1}}
    \cup {Rep("a", MAX_MODULE_NAME_LENGTH - 1) \o <<"\n">>,
          Rep("a", MAX_MODULE_NAME_LENGTH) \o <<"\n">>,
          Rep("a", MAX_MODULE_NAME_LENGTH - 1) \o <<"/">>}

InitName ==
    /\ fs = NoFs
    /\ call = Idle
    /\ host = PrivilegedHost
    /\ ret = Idle

ValidateNameCall ==
    \E name \in NameInputs :
        /\ call.op = "none"
        /\ call' = [op |-> "validate_module_name", name |-> name]
        /\ ret' = validate_module_name(name)
        /\ UNCHANGED <<fs, host>>

NextName ==
    ValidateNameCall

SpecName ==
    InitName /\ [][NextName]_vars

\* C2: validate_module_name rejects every string that holds a character
\* outside [A-Za-z0-9_-] (a trailing newline included), and accepts, returning
\* it unchanged, every non-empty string of at most 50 characters of that class
\* whose lower-cased form is not a reserved device name.
C2_NameValidatorContract ==
    call.op = "validate_module_name" =>
        LET name == call.name IN
        /\ (\E i \in 1..Len(name) : name[i] \notin NameClass)
              => (~ret.ok /\ ret.err = "ValidationError")
        /\ ( /\ name # <<>>
             /\ Len(name) <= 50
             /\ \A i \in 1..Len(name) : name[i] \in NameClass
             /\ Lower(name) \notin reserved_names )
              => (ret.ok /\ ret.value = name)

(***************************************************************************)
(* Specification of the path guard: validate_path on the allowed root      *)
(* joined with every traversal sequence, in a tree without symbolic links. *)
(***************************************************************************)
RootFs ==
    Put(Put(<<>> :> DirNode(ModeDirDefault), FOTO_DIR, DirNode(ModeDirDefault)),
        <<N_etc>>, DirNode(ModeDirDefault))

PathFs ==
    Put(Put(Put(Put(RootFs,
        MODULES_DIR, DirNode(ModeDirDefault)),
        LOCAL_MODULES_DIR, DirNode(ModeDirDefault)),
        <<N_h, N_modules_evil>>, DirNode(ModeDirDefault)),
        <<N_h, N_modules_evil, N_x>>, DirNode(ModeDirDefault))

TravNames ==
    {DotDot, N_modules, N_modules_evil, N_local, N_etc, N_x}

TravInputs ==
    Strings(TravNames, MaxTrav)

InitPath ==
    /\ fs = PathFs
    /\ call = Idle
    /\ host = PrivilegedHost
    /\ ret = Idle

ValidatePathCall ==
    \E trav \in TravInputs :
        /\ call.op = "none"
        /\ call' = [op |-> "validate_path", path |-> MODULES_DIR \o trav,
                    allowed_parent |-> MODULES_DIR]
        /\ ret' = validate_path(fs, MODULES_DIR \o trav, MODULES_DIR)
        /\ UNCHANGED <<fs, host>>

NextPath ==
    ValidatePathCall

SpecPath ==
    InitPath /\ [][NextPath]_vars

\* The canonical form of a path in a tree without symbolic links: "." is
\* dropped and ".." removes the component before it.
RECURSIVE Canonical(_, _)
Canonical(done, rest) ==
    IF rest = <<>> THEN done
    ELSE IF Head(rest) = DotDot THEN Canonical(Parent(done), Tail(rest))
    ELSE IF Head(rest) = Dot THEN Canonical(done, Tail(rest))
    ELSE Canonical(Append(done, Head(rest)), Tail(rest))

\* C3: validate_path raises SecurityError for every path made of the allowed
\* root and a traversal sequence whose canonical form is neither the root nor
\* a descendant of it, a sibling directory whose name starts with the root's
\* name included.
C3_TraversalRejected ==
    call.op = "validate_path" =>
        (~IsPrefix(call.allowed_parent, Canonical(<<>>, call.path))
            => (~ret.ok /\ ret.err = "SecurityError"))

(***************************************************************************)
(* Specification of the descriptor validator: load_and_validate_meta on a  *)
(* tree that holds one descriptor file, for every descriptor of the        *)
(* inputs.                                                                 *)
(***************************************************************************)
S_1_2_3 ==
    <<"1",".","2",".","3">>

S_zsh ==
    <<"z","s","h">>

S_description ==
    <<"d">>

TreeFs ==
    Put(Put(Put(RootFs,
        MODULES_DIR, DirNode(ModeDirDefault)),
        LOCAL_MODULES_DIR, DirNode(ModeDirDefault)),
        Append(LOCAL_MODULES_DIR, N_x), DirNode(ModeDirDefault))

MetaFile ==
    LOCAL_MODULES_DIR \o <<N_x, N_meta_json>>

Absent ==
    [t |-> "absent", v |-> <<>>]

VersionInputs ==
    {StrVal(core \o suffix) :
        core \in Strings({"1", "."}, MaxVerLen), suffix \in {<<>>, <<"\n">>, <<"a">>}}
    \cup {StrVal(S_1_2_3), StrVal(S_1_2_3 \o <<"\n">>), OtherVal}

LangInputs ==
    {StrVal(S_bash), StrVal(S_pwsh), StrVal(S_zsh), OtherVal}

EntryInputs ==
    {StrVal(N_script_sh), StrVal(N_script_ps1), StrVal(<<"s">>),
     StrVal(<<DotDot[1], DotDot[2], "/">> \o N_script_sh), OtherVal}

\* The descriptor object with the given value, or no key, per field.
Descriptor(n, v, d, l, e) ==
    LET given == [fld \in RequiredFieldNames |->
                    CASE fld = "name" -> n
                      [] fld = "version" -> v
                      [] fld = "description" -> d
                      [] fld = "lang" -> l
                      [] fld = "entry" -> e]
    IN  ObjectData({<<fld, given[fld]>> : fld \in {g \in RequiredFieldNames : given[g] # Absent}})

DescriptorInputs ==
    {Descriptor(n, v, d, l, e) :
        n \in {Absent, StrVal(N_x)},
        v \in {Absent} \cup VersionInputs,
        d \in {Absent, StrVal(S_description), OtherVal},
        l \in {Absent} \cup LangInputs,
        e \in {Absent} \cup EntryInputs}

GoodDescriptor ==
    Descriptor(StrVal(N_x), StrVal(S_1_2_3), StrVal(S_description),
               StrVal(S_bash), StrVal(N_script_sh))

InitMeta ==
    /\ \/ \E d \in DescriptorInputs :
             fs = Put(TreeFs, MetaFile, FileNode(ModeFileDefault, d, 1))
       \/ \E d \in {GoodDescriptor, Descriptor(Absent, Absent, Absent, Absent, Absent)} :
             fs = Put(TreeFs, MetaFile, FileNode(ModeFileDefault, d, MAX_META_SIZE + 1))
       \/ \E j \in {"unparsable", "number"}, size \in {1, MAX_META_SIZE} :
             fs = Put(TreeFs, MetaFile,
                      FileNode(ModeFileDefault, [NoData EXCEPT !.json = j], size))
       \/ fs = TreeFs
       \/ fs = Put(TreeFs, MetaFile, DirNode(ModeDirDefault))
    /\ call = Idle
    /\ host = PrivilegedHost
    /\ ret = Idle

LoadMetaCall ==
    /\ call.op = "none"
    /\ call' = [op |-> "load_and_validate_meta", meta_file |-> MetaFile]
    /\ ret' = load_and_validate_meta(fs, MetaFile)
    /\ UNCHANGED <<fs, host>>

NextMeta ==
    LoadMetaCall

SpecMeta ==
    InitMeta /\ [][NextMeta]_vars

\* C13: a descriptor file larger than the ceiling of MAX_META_SIZE bytes is
\* rejected by the size gate with a SecurityError, and load_and_validate_meta
\* hands that SecurityError to its caller, not an InvalidModuleError.
C13_SizeGateIsSecurityError ==
    (/\ call.op = "load_and_validate_meta"
     /\ Exists(fs, call.meta_file)
     /\ Stat(fs, call.meta_file).kind = "file"
     /\ Stat(fs, call.meta_file).size > MAX_META_SIZE) =>
        (~ret.ok /\ ret.err = "SecurityError")

\* A MAJOR.MINOR.PATCH triplet and nothing else: exactly two dots, every
\* other character a decimal digit, no part empty.
StrictTriplet(s) ==
    \E i, j \in 1..Len(s) :
        /\ 1 < i /\ i + 1 < j /\ j < Len(s)
        /\ s[i] = "." /\ s[j] = "."
        /\ \A k \in (1..Len(s)) \ {i, j} : s[k] \in Digits

\* The descriptor in the file passes every check of the schema.
PassesSchema(d) ==
    /\ d.json = "object"
    /\ RequiredFieldNames \subseteq Keys(d)
    /\ Get(d, "lang") \in {StrVal(S_bash), StrVal(S_pwsh)}
    /\ Get(d, "version").t = "str" /\ StrictTriplet(Get(d, "version").v)
    /\ Get(d, "entry").t = "str"
    /\ Get(d, "lang") = StrVal(S_bash) => EndsWith(Get(d, "entry").v, S_dot_sh)
    /\ Get(d, "lang") = StrVal(S_pwsh) => EndsWith(Get(d, "entry").v, S_dot_ps1)

\* C5: every value load_and_validate_meta returns has the five required
\* fields, a lang of bash or pwsh, a version that is exactly a numeric
\* triplet and an entry with the extension of its lang; a descriptor failing
\* a check yields InvalidModuleError and no descriptor.
C5_OnlyValidDescriptorsReturned ==
    call.op = "load_and_validate_meta" =>
        /\ ret.ok => PassesSchema(ret.value)
        /\ ~PassesSchema(Stat(fs, call.meta_file).data)
              => (~ret.ok /\ ret.err = "InvalidModuleError" /\ ret.value = NoData)

\* The required field names a message holds.
FieldsNamed(msg) ==
    {msg[i] : i \in 1..Len(msg)} \cap RequiredFieldNames

\* C6: for a descriptor object (a file within the size ceiling that parses to
\* an object) that lacks required fields, load_and_validate_meta fails with
\* an InvalidModuleError whose message names the first missing field in the
\* order name, version, description, lang, entry; the descriptor with all
\* five fields, lang bash, entry script.sh and version 1.2.3 is returned.
C6_MissingFieldNamed ==
    call.op = "load_and_validate_meta" =>
        LET node == Stat(fs, call.meta_file)
            d == node.data
            order == <<"name", "version", "description", "lang", "entry">>
        IN  (node.kind = "file" /\ node.size <= MAX_META_SIZE /\ d.json = "object") =>
            /\ \A k \in 1..5 :
                  (order[k] \notin Keys(d) /\ \A m \in 1..(k - 1) : order[m] \in Keys(d))
                      => /\ ~ret.ok
                         /\ ret.err = "InvalidModuleError"
                         /\ FieldsNamed(ret.msg) = {order[k]}
            /\ d = GoodDescriptor => (ret.ok /\ ret.value = d)

\* A descriptor that lacks two fields (version and lang) was rejected.
C6_Witness_TwoMissing ==
    /\ call.op = "load_and_validate_meta"
    /\ Stat(fs, call.meta_file).data.json = "object"
    /\ Keys(Stat(fs, call.meta_file).data) = {"name", "description", "entry"}
    /\ ~ret.ok

(***************************************************************************)
(* Specification of the command synthesizer: the printed line for every    *)
(* entry script name and argument list of the inputs.                      *)
(***************************************************************************)
\* The grave accent character (written out: the parser reads a string that
\* starts with that character differently).
BackQuote ==
    "GRAVE"

QuoteAlphabet ==
    {"a", " ", "'", "\"", "$", BackQuote, "\\", ";"}

StemInputs ==
    Strings(QuoteAlphabet, MaxQLen)

ArgInputs ==
    Strings(QuoteAlphabet, 1) \cup {<<"a", " ", "b">>, <<"i", "t", "'", "s">>}

InitQuote ==
    /\ fs = NoFs
    /\ call = Idle
    /\ host = PrivilegedHost
    /\ ret = Idle

BuildCall ==
    \E stem \in StemInputs, args \in Strings(ArgInputs, MaxArgs), lang \in {S_bash, S_pwsh} :
        LET entry == Append(Append(LOCAL_MODULES_DIR, N_x),
                            stem \o valid_extensions(lang))
        IN  /\ call.op = "none"
            /\ call' = [op |-> "build", lang |-> lang, entry |-> entry, args |-> args]
            /\ ret' = [line |-> sourcing_command(lang, entry, args)]
            /\ UNCHANGED <<fs, host>>

NextQuote ==
    BuildCall

SpecQuote ==
    InitQuote /\ [][NextQuote]_vars

\* What starts an expansion after "$" in a POSIX shell.
ExpansionStart ==
    Letters \cup Digits \cup {"_", "(", "{", "$", "?", "!", "#", "@", "*", "-"}

\* Characters that, unquoted, are not part of a word: separators, operators,
\* redirections, substitutions, patterns.
ShellSpecial ==
    {";", "&", "|", "<", ">", "(", ")", BackQuote, "\n", "*", "?", "[", "#", "~"}

\* A POSIX shell's splitting of a command line into words.  ok is FALSE when
\* the line holds anything but literal words: an unquoted operator, an
\* expansion, a command substitution, an unterminated quote.
RECURSIVE ShellScan(_, _, _, _, _, _)
ShellScan(s, i, mode, cur, inword, words) ==
    IF i > Len(s)
    THEN [ok |-> mode = "plain",
          words |-> IF inword THEN Append(words, cur) ELSE words]
    ELSE LET c == s[i]
             next == IF i < Len(s) THEN s[i + 1] ELSE ""
             fail == [ok |-> FALSE, words |-> words]
         IN
         IF mode = "plain" THEN
            IF c = " " THEN ShellScan(s, i + 1, "plain", <<>>, FALSE,
                                      IF inword THEN Append(words, cur) ELSE words)
            ELSE IF c = "'" THEN ShellScan(s, i + 1, "sq", cur, TRUE, words)
            ELSE IF c = "\"" THEN ShellScan(s, i + 1, "dq", cur, TRUE, words)
            ELSE IF c = "\\" THEN
                IF i = Len(s) THEN fail
                ELSE ShellScan(s, i + 2, "plain", Append(cur, next), TRUE, words)
            ELSE IF c \in ShellSpecial THEN fail
            ELSE IF c = "$" /\ next \in ExpansionStart \cup {"'", "\""} THEN fail
            ELSE ShellScan(s, i + 1, "plain", Append(cur, c), TRUE, words)
         ELSE IF mode = "sq" THEN
            IF c = "'" THEN ShellScan(s, i + 1, "plain", cur, TRUE, words)
            ELSE ShellScan(s, i + 1, "sq", Append(cur, c), TRUE, words)
         ELSE
            IF c = "\"" THEN ShellScan(s, i + 1, "plain", cur, TRUE, words)
            ELSE IF c = "\\" THEN
                IF i = Len(s) THEN fail
                ELSE IF next \in {"$", BackQuote, "\"", "\\"}
                THEN ShellScan(s, i + 2, "dq", Append(cur, next), TRUE, words)
                ELSE ShellScan(s, i + 1, "dq", Append(cur, c), TRUE, words)
            ELSE IF c = BackQuote THEN fail
            ELSE IF c = "$" /\ next \in ExpansionStart THEN fail
            ELSE ShellScan(s, i + 1, "dq", Append(cur, c), TRUE, words)

ShellSplit(line) ==
    ShellScan(line, 1, "plain", <<>>, FALSE, <<>>)

\* C1: a POSIX shell re-splitting the printed line gets exactly the sourcing
\* keyword, the entry path and the arguments, unchanged and in order, with no
\* extra word, expansion, redirection or separator, whatever characters the
\* path and the arguments hold.
C1_CommandResplitsToInputs ==
    call.op = "build" =>
        /\ ShellSplit(ret.line).ok
        /\ ShellSplit(ret.line).words
              = <<IF call.lang = S_bash THEN S_source ELSE <<".">>, Str(call.entry)>>
                    \o call.args

(***************************************************************************)
(* Specification of the program: the tree as the user (or someone else)    *)
(* prepares it, and the commands run and create, one process at a time.    *)
(* A command is the whole of main(): logging set up, the directories       *)
(* initialized, the handler run; Exit ends the process.                    *)
(***************************************************************************)
N_o ==
    <<"o">>

OUTSIDE_DIR ==
    <<N_o>>

BaseFs ==
    Put(RootFs, OUTSIDE_DIR, DirNode(ModeDirDefault))

S_1_2 ==
    <<"1",".","2">>

GoodMeta ==
    GoodDescriptor

BadMeta ==
    Descriptor(StrVal(N_x), StrVal(S_1_2), StrVal(S_description),
               StrVal(S_bash), StrVal(N_script_sh))

CmdNames ==
    {N_x, DotDot}

CmdArgs ==
    {<<>>, <<<<"a", " ", "b">>>>, <<<<"a", "\n", "b">>>>}

S_vi ==
    <<"v","i">>

EditorInputs ==
    { [set |-> FALSE, value |-> <<>>],
      [set |-> TRUE, value |-> S_vi],
      [set |-> TRUE, value |-> <<"/","b","/","V","I",".","e","x","e">>],
      [set |-> TRUE, value |-> <<"r","m">>],
      [set |-> TRUE, value |-> <<"'","v","i">>],
      [set |-> TRUE, value |-> <<" ">>] }

Init ==
    /\ fs \in { BaseFs,
                Put(BaseFs, MODULES_DIR, DirNode(ModeDirDefault)),
                Put(BaseFs, MODULES_DIR, LinkNode(OUTSIDE_DIR)) }
    /\ call = Idle
    /\ host = PrivilegedHost
    /\ ret = Idle

\* The physical place of the entry that path names.
Phys(f, path) ==
    Append(Walk(f, <<>>, Parent(path), MaxLinkDepth, TRUE).path, path[Len(path)])

\* Someone replaces a scope directory that is not there by a symbolic link.
EnvLinkScope ==
    \E dir \in {LOCAL_MODULES_DIR, BUNDLED_MODULES_DIR, COMMUNITY_MODULES_DIR} :
        /\ call.op = "none"
        /\ IsDir(fs, MODULES_DIR)
        /\ LStat(fs, dir).kind = "none"
        /\ UNCHANGED host
        /\ fs' = Put(fs, Phys(fs, dir), LinkNode(OUTSIDE_DIR))
        /\ UNCHANGED <<call, ret>>

EntryKinds ==
    {"dir", "file", "link_in", "link_out"}

EntryNode(kind) ==
    CASE kind = "dir" -> DirNode(ModeDirDefault)
      [] kind = "file" -> FileNode(ModeFileDefault, NoData, 1)
      [] kind = "link_in" -> LinkNode(BUNDLED_MODULES_DIR)
      [] kind = "link_out" -> LinkNode(OUTSIDE_DIR)

\* Someone puts an entry named x into a scope directory.
EnvPutEntry ==
    \E dir \in {LOCAL_MODULES_DIR, BUNDLED_MODULES_DIR, COMMUNITY_MODULES_DIR},
       kind \in EntryKinds :
        /\ call.op = "none"
        /\ LStat(fs, dir).kind = "dir"
        /\ LStat(fs, Append(dir, N_x)).kind = "none"
        /\ dir = COMMUNITY_MODULES_DIR => kind = "dir"
        /\ UNCHANGED host
        /\ fs' = Put(fs, Phys(fs, Append(dir, N_x)), EntryNode(kind))
        /\ UNCHANGED <<call, ret>>

\* Someone writes the descriptor of a module directory by hand.
EnvWriteMeta ==
    \E dir \in {LOCAL_MODULES_DIR, BUNDLED_MODULES_DIR}, d \in {GoodMeta, BadMeta} :
        /\ call.op = "none"
        /\ LStat(fs, Append(dir, N_x)).kind = "dir"
        /\ ~Exists(fs, dir \o <<N_x, N_meta_json>>)
        /\ UNCHANGED host
        /\ fs' = write_file(fs, dir \o <<N_x, N_meta_json>>, d, 1).fs
        /\ UNCHANGED <<call, ret>>

\* Someone writes the entry script of a module directory by hand.
EnvWriteScript ==
    \E dir \in {LOCAL_MODULES_DIR, BUNDLED_MODULES_DIR},
       size \in {MAX_SCRIPT_SIZE, MAX_SCRIPT_SIZE + 1} :
        /\ call.op = "none"
        /\ LStat(fs, Append(dir, N_x)).kind = "dir"
        /\ ~Exists(fs, dir \o <<N_x, N_script_sh>>)
        /\ UNCHANGED host
        /\ fs' = write_file(fs, dir \o <<N_x, N_script_sh>>, NoData, size).fs
        /\ UNCHANGED <<call, ret>>

\* The start of every command: setup_logging at import, then main() calls
\* initialize_directories.
Startup(f) ==
    initialize_directories(setup_logging(f))

\* footo run <name> [args...]
RunCmd ==
    \E name \in CmdNames, args \in CmdArgs, init \in {Startup(fs)} :
        /\ call.op = "none"
        /\ call' = [op |-> "run", name |-> name, args |-> args]
        /\ UNCHANGED host
        /\ fs' = init.fs
        /\ ret' = IF init.err # "" THEN RunFailure("init", init.err, NotFound)
                  ELSE run_module(init.fs, name, args)

\* footo create <name>, with EDITOR as given and the editor doing outcome.
CreateCmd ==
    \E name \in CmdNames, editor \in EditorInputs, outcome \in EditorOutcomes,
       init \in {Startup(fs)} :
        \E r \in {IF init.err # ""
                  THEN CreateResult(init.fs, 1, init.err, "init", <<>>, NotFound,
                                    "not_reached")
                  ELSE create_module(init.fs, name, editor, outcome)} :
            /\ call.op = "none"
            /\ call' = [op |-> "create", name |-> name, editor |-> editor]
            /\ UNCHANGED host
            /\ fs' = r.fs
            /\ ret' = [exit |-> r.exit, err |-> r.err, stage |-> r.stage,
                       stdout |-> r.stdout, found |-> r.found, editor |-> r.editor]

\* The process ends.
Exit ==
    /\ call.op # "none"
    /\ call' = Idle
    /\ ret' = Idle
    /\ UNCHANGED <<fs, host>>

Next ==
    \/ EnvLinkScope
    \/ EnvPutEntry
    \/ EnvWriteMeta
    \/ EnvWriteScript
    \/ RunCmd
    \/ CreateCmd
    \/ Exit

Spec ==
    Init /\ [][Next]_vars

(***************************************************************************)
(* Properties of the commands.                                             *)
(***************************************************************************)
\* The path and its ancestors below the footo home, the home excluded.
WayFromHome(path) ==
    {SubSeq(path, 1, i) : i \in (Len(FOTO_DIR) + 1)..Len(path)}

ScopeRoot(scope) ==
    IF scope = "local" THEN LOCAL_MODULES_DIR ELSE BUNDLED_MODULES_DIR

\* C4: whenever find_module returns a path and a scope, the path is a real
\* directory strictly under the root of that scope, and neither the modules
\* directory, nor the scope directory, nor the module directory is a
\* symbolic link.
C4_NoSymlinkOnTheWay ==
    (call.op \in {"run", "create"} /\ ret.found.path # <<>>) =>
        /\ IsPrefix(ScopeRoot(ret.found.scope), ret.found.path)
        /\ Len(ret.found.path) > Len(ScopeRoot(ret.found.scope))
        /\ \A p \in WayFromHome(ret.found.path) : LStat(fs, p).kind = "dir"

\* The candidate exists as a directory and passes validate_path.
Passing(f, candidate) ==
    /\ Stat(f, candidate).kind = "dir"
    /\ validate_path(f, candidate, MODULES_DIR).ok

\* C7: for a valid name find_module returns the local candidate when it is
\* a passing directory, else the bundled candidate when that one is, else
\* nothing, which run turns into ModuleNotFoundError; a module of the
\* community scope is never returned.
C7_FirstPassingScope ==
    (call.op = "run" /\ ret.stage \notin {"init", "name"}) =>
        LET loc == Append(LOCAL_MODULES_DIR, call.name)
            bun == Append(BUNDLED_MODULES_DIR, call.name)
        IN  /\ Passing(fs, loc) => (ret.found.path = loc /\ ret.found.scope = "local")
            /\ (~Passing(fs, loc) /\ Passing(fs, bun))
                  => (ret.found.path = bun /\ ret.found.scope = "bundled")
            /\ (~Passing(fs, loc) /\ ~Passing(fs, bun))
                  => /\ ret.found.path = <<>>
                     /\ ret.found.scope = "none"
                     /\ ret.err = "ModuleNotFoundError"
                     /\ ret.exit = 1

\* The local candidate is a symbolic link to a directory inside the tree and
\* was skipped; the bundled directory was returned.
C7_Witness_LocalLinkSkipped ==
    /\ call.op = "run"
    /\ LStat(fs, Append(LOCAL_MODULES_DIR, call.name)).kind = "link"
    /\ Stat(fs, Append(LOCAL_MODULES_DIR, call.name)).kind = "dir"
    /\ ret.found.scope = "bundled"

\* The first of the checks of run, in their order, that the tree and the
\* name do not pass ("" when they pass all of them).
FirstFailedCheck ==
    LET found == find_module(fs, call.name)
        meta_file == Append(found.path, N_meta_json)
        loaded == load_and_validate_meta(fs, meta_file)
        entry == PathJoin(found.path, Get(loaded.value, "entry").v)
    IN  IF ~validate_module_name(call.name).ok THEN "name"
        ELSE IF found.path = <<>> THEN "find"
        ELSE IF Stat(fs, meta_file).kind = "none" THEN "meta_exists"
        ELSE IF ~loaded.ok THEN "meta_valid"
        ELSE IF Stat(fs, entry).kind = "none" THEN "entry_exists"
        ELSE IF Stat(fs, entry).size > MAX_SCRIPT_SIZE THEN "entry_size"
        ELSE ""

\* C8: run prints a sourcing command only when the name validation, the
\* scope resolution, the presence and the validation of meta.json, the
\* existence of the entry script and its size gate have all succeeded; when
\* one of them fails nothing is printed, the exit code is 1, and the failure
\* reported is that of the first failing check in this order.
C8_PrintsOnlyAfterAllChecks ==
    call.op = "run" =>
        /\ ret.stdout # <<>> => (FirstFailedCheck = "" /\ ret.exit = 0)
        /\ FirstFailedCheck # ""
              => /\ ret.stdout = <<>>
                 /\ ret.exit = 1
                 /\ ret.stage \in {"init", FirstFailedCheck}

\* A run that passed every check and printed the command with its argument.
C8_Witness_Printed ==
    /\ call.op = "run"
    /\ call.args # <<>>
    /\ ret.exit = 0
    /\ ret.stdout = sourcing_command(S_bash, LOCAL_MODULES_DIR \o <<N_x, N_script_sh>>,
                                     call.args) \o <<"\n">>

\* Nothing named like the module, meta.json or script.sh is created or
\* changed by the step.
NoModuleWrite ==
    \A p \in DOMAIN fs' :
        (p # <<>> /\ p[Len(p)] \in {call'.name, N_meta_json, N_script_sh})
            => (p \in DOMAIN fs /\ fs'[p] = fs[p])

\* An entry of some kind holds the name in the local or the bundled scope.
Occupied(f, name) ==
    \/ LStat(f, Append(LOCAL_MODULES_DIR, name)).kind # "none"
    \/ LStat(f, Append(BUNDLED_MODULES_DIR, name)).kind # "none"

ArtifactsInPlace(f, name) ==
    /\ LStat(f, Append(LOCAL_MODULES_DIR, name)).kind = "dir"
    /\ LStat(f, LOCAL_MODULES_DIR \o <<name, N_meta_json>>).kind = "file"
    /\ LStat(f, LOCAL_MODULES_DIR \o <<name, N_script_sh>>).kind = "file"

\* C10: when create has written the module and the editor is not opened,
\* for whatever reason, create still succeeds: the exit code is 0 and the
\* directory, the descriptor and the script remain.
C10_EditorFailureIsNoError ==
    (call.op = "create" /\ ret.editor \in {"not_opened", "raised"}) =>
        /\ ret.exit = 0
        /\ ArtifactsInPlace(fs, call.name)

\* The number of newline characters in a string.
RECURSIVE Newlines(_)
Newlines(s) ==
    IF s = <<>> THEN 0
    ELSE (IF Head(s) = "\n" THEN 1 ELSE 0) + Newlines(Tail(s))

\* C15: every successful run writes exactly one line to the standard
\* output, one command ended by a single newline, whatever the arguments,
\* an argument that holds a newline included.
C15_OneLineOfOutput ==
    (call.op = "run" /\ ret.exit = 0) =>
        /\ Newlines(ret.stdout) = 1
        /\ ret.stdout[Len(ret.stdout)] = "\n"

(***************************************************************************)
(* Specification of the listing: two module directories in the local scope *)
(* and one in the bundled scope, each with one of the contents a module    *)
(* directory can have, and the command list.                               *)
(***************************************************************************)
N_y ==
    <<"y">>

NumberDescription ==
    Descriptor(StrVal(N_x), StrVal(S_1_2_3), OtherVal, StrVal(S_bash),
               StrVal(N_script_sh))

NullDescription ==
    Descriptor(StrVal(N_x), StrVal(S_1_2_3), NullVal, StrVal(S_bash),
               StrVal(N_script_sh))

ListContents ==
    {"no_meta", "unparsable", "bad_schema", "good", "number_description",
     "null_description", "not_a_directory"}

\* The tree with the entry at path given the content.
WithContent(f, path, content) ==
    LET meta_file == Append(path, N_meta_json)
        with_dir == Put(f, path, DirNode(ModeDirDefault))
        holding(d) == Put(with_dir, meta_file, FileNode(ModeFileDefault, d, 1))
    IN  CASE content = "no_meta" -> with_dir
          [] content = "unparsable" -> holding([NoData EXCEPT !.json = "unparsable"])
          [] content = "bad_schema" -> holding(BadMeta)
          [] content = "good" -> holding(GoodMeta)
          [] content = "number_description" -> holding(NumberDescription)
          [] content = "null_description" -> holding(NullDescription)
          [] content = "not_a_directory" -> Put(f, path, FileNode(ModeFileDefault, NoData, 1))

ScopesFs ==
    Put(Put(Put(Put(BaseFs,
        MODULES_DIR, DirNode(ModeDirDefault)),
        LOCAL_MODULES_DIR, DirNode(ModeDirDefault)),
        BUNDLED_MODULES_DIR, DirNode(ModeDirDefault)),
        COMMUNITY_MODULES_DIR, DirNode(ModeDirDefault))

InitList ==
    /\ \E cx, cy, cb \in ListContents :
          fs = WithContent(WithContent(WithContent(ScopesFs,
                   Append(LOCAL_MODULES_DIR, N_x), cx),
                   Append(LOCAL_MODULES_DIR, N_y), cy),
                   Append(BUNDLED_MODULES_DIR, N_x), cb)
    /\ call = Idle
    /\ host = PrivilegedHost
    /\ ret = Idle

\* footo list
ListCmd ==
    \E init \in {Startup(fs)} :
        /\ call.op = "none"
        /\ call' = [op |-> "list"]
        /\ UNCHANGED host
        /\ fs' = init.fs
        /\ ret' = IF init.err # "" THEN [exit |-> 1, stdout |-> <<>>, err |-> init.err]
                  ELSE list_modules(init.fs)

NextList ==
    ListCmd

SpecList ==
    InitList /\ [][NextList]_vars

\* The module directories of a scope: the entries that are directories.
ModuleDirs(f, scope_dir) ==
    {name \in {N_x, N_y} : Stat(f, Append(scope_dir, name)).kind = "dir"}

\* C11: whatever the module directories of the local and the bundled scope
\* hold (no meta.json, an unparsable one, a descriptor failing the schema, a
\* good one, one whose description is not a string), list prints or
\* annotates every one of them, in both scopes, and the process exits 0.
C11_ListNeverFails ==
    call.op = "list" =>
        /\ ret.exit = 0
        /\ \A name \in ModuleDirs(fs, LOCAL_MODULES_DIR) :
              \E i \in 1..Len(ret.stdout) :
                  ret.stdout[i].scope = "Local" /\ ret.stdout[i].dir = name
        /\ \A name \in ModuleDirs(fs, BUNDLED_MODULES_DIR) :
              \E i \in 1..Len(ret.stdout) :
                  ret.stdout[i].scope = "Bundled" /\ ret.stdout[i].dir = name

(***************************************************************************)
(* Specification of the command line: every argument list of the inputs,   *)
(* on a tree where the directories can be initialized and on one where     *)
(* they cannot.                                                            *)
(***************************************************************************)
MaxArgv ==
    2

ArgvTokens ==
    {T_version, T_h, T_create, T_run, T_list, T_info, N_x}

ArgvInputs ==
    Strings(ArgvTokens, MaxArgv)

InitMain ==
    /\ fs \in { BaseFs,
                ScopesFs,
                WithContent(ScopesFs, Append(LOCAL_MODULES_DIR, N_x), "good"),
                Put(Put(BaseFs, MODULES_DIR, DirNode(ModeDirDefault)),
                    LOCAL_MODULES_DIR, LinkNode(OUTSIDE_DIR)) }
    /\ call = Idle
    /\ host = PrivilegedHost
    /\ ret = Idle

\* footo <argv>
MainCmd ==
    \E argv \in ArgvInputs :
        \E r \in {main(setup_logging(fs), argv)} :
            /\ call.op = "none"
            /\ call' = [op |-> "main", argv |-> argv]
            /\ UNCHANGED host
            /\ fs' = r.fs
            /\ ret' = [exit |-> r.exit, route |-> r.route, stdout |-> r.stdout]

NextMain ==
    MainCmd

SpecMain ==
    InitMain /\ [][NextMain]_vars

\* C12: with --version as the only argument the process prints "Footo
\* 1.1.0" and exits with code 0, and the argument is not made an argument of
\* run.
C12_VersionPrinted ==
    (call.op = "main" /\ call.argv = <<T_version>>) =>
        /\ ret.exit = 0
        /\ ret.route = "version"
        /\ ret.stdout = <<<<"F","o","o","t","o"," ","1",".","1",".","0">>>>

(***************************************************************************)
(* Specification of the entry path: module x of the local scope with a     *)
(* descriptor whose entry is a path to a script.sh, relative or absolute,  *)
(* through "..", x, y and o; script.sh files stand in the module, in a     *)
(* directory of the module, in module y and in the directory /o outside    *)
(* the home directory.  The module is run.                                 *)
(***************************************************************************)
EntryParts ==
    {DotDot, N_x, N_y, N_o}

\* The entry strings: an optional "/", the parts, script.sh.
EntryStrings ==
    {lead \o JoinWith(<<"/">>, [i \in 1..(Len(parts) + 1) |->
                                    IF i <= Len(parts) THEN parts[i] ELSE N_script_sh])
        : lead \in {<<>>, <<"/">>}, parts \in Strings(EntryParts, MaxTrav)}

EntryFs ==
    LET module_x == Append(LOCAL_MODULES_DIR, N_x)
        module_y == Append(LOCAL_MODULES_DIR, N_y)
        script == FileNode(ModeFileDefault, NoData, 1)
    IN  Put(Put(Put(Put(Put(Put(Put(ScopesFs,
            module_x, DirNode(ModeDirDefault)),
            Append(module_x, N_script_sh), script),
            Append(module_x, N_x), DirNode(ModeDirDefault)),
            module_x \o <<N_x, N_script_sh>>, script),
            module_y, DirNode(ModeDirDefault)),
            Append(module_y, N_script_sh), script),
            Append(OUTSIDE_DIR, N_script_sh), script)

InitEntry ==
    /\ \E entry \in EntryStrings :
          fs = Put(EntryFs, LOCAL_MODULES_DIR \o <<N_x, N_meta_json>>,
                   FileNode(ModeFileDefault,
                            Descriptor(StrVal(N_x), StrVal(S_1_2_3), StrVal(S_description),
                                       StrVal(S_bash), StrVal(entry)), 1))
    /\ call = Idle
    /\ host = PrivilegedHost
    /\ ret = Idle

\* run_module(x)
RunEntryCall ==
    /\ call.op = "none"
    /\ call' = [op |-> "run", name |-> N_x, args |-> <<>>]
    /\ ret' = run_module(fs, N_x, <<>>)
    /\ UNCHANGED <<fs, host>>

NextEntry ==
    RunEntryCall

SpecEntry ==
    InitEntry /\ [][NextEntry]_vars

\* The path between the double quotes of a printed sourcing command.
RECURSIVE QuotedPath(_, _, _)
QuotedPath(s, inside, acc) ==
    IF s = <<>> THEN acc
    ELSE IF Head(s) = "\"" THEN (IF inside THEN acc ELSE QuotedPath(Tail(s), TRUE, acc))
    ELSE QuotedPath(Tail(s), inside, IF inside THEN Append(acc, Head(s)) ELSE acc)

\* C17: the script path of the command a successful run prints leads to a
\* file inside the resolved directory of the module, whatever the entry of
\* the accepted descriptor is.
C17_EntryInsideModule ==
    (call.op = "run" /\ ret.exit = 0) =>
        LET printed == Resolve(fs, SplitSlash(QuotedPath(ret.stdout, FALSE, <<>>), <<>>, <<>>))
            module_dir == Resolve(fs, ret.found.path)
        IN  /\ printed.ok /\ module_dir.ok
            /\ IsPrefix(module_dir.path, printed.path)
            /\ printed.path # module_dir.path

(***************************************************************************)
(* Specification of two processes that create the same unused name at the  *)
(* same time, on any host.  Each process goes through the steps of main    *)
(* and of create_module (EDITOR is not set), one system call or one check  *)
(* at a step; the steps of the two interleave in every order.  call holds  *)
(* where each process stands (pc), whether its mkdir made the module       *)
(* directory (made) and the files it wrote (written); ret holds how each   *)
(* ended.                                                                  *)
(***************************************************************************)
Procs ==
    {1, 2}

RaceNames ==
    {N_x, N_y}

InitRace ==
    /\ host \in HostInputs
    /\ fs \in {BaseFs, ScopesFs,
               WithContent(ScopesFs, Append(BUNDLED_MODULES_DIR, N_y), "good")}
    /\ \E name \in RaceNames :
          /\ find_module(fs, name).path = <<>>
          /\ call = [op |-> "race", name |-> name,
                     pc |-> [p \in Procs |-> "init"],
                     made |-> [p \in Procs |-> FALSE],
                     written |-> [p \in Procs |-> {}]]
    /\ ret = [p \in Procs |-> Idle]

\* The process ends with the exit code.
RaceEnd(p, exit, err) ==
    /\ call' = [call EXCEPT !.pc[p] = "done"]
    /\ ret' = [ret EXCEPT ![p] = [exit |-> exit, err |-> err]]

RaceGoto(p, pc) ==
    /\ call' = [call EXCEPT !.pc[p] = pc]
    /\ UNCHANGED ret

\* The path a step of create_module acts on.
RacePath(pc) ==
    LET module_path == Append(LOCAL_MODULES_DIR, call.name)
    IN  CASE pc \in {"meta", "chmod_meta"} -> Append(module_path, N_meta_json)
          [] pc \in {"script", "chmod_script"} -> Append(module_path, N_script_sh)
          [] OTHER -> module_path

\* main: the directories are initialized.
RaceStartup(p) ==
    \E init \in {Startup(fs)} :
        /\ call.op = "race" /\ call.pc[p] = "init"
        /\ UNCHANGED host
        /\ fs' = init.fs
        /\ IF init.err # "" THEN RaceEnd(p, 1, init.err) ELSE RaceGoto(p, "check")

\* create_module: the name is validated and looked for in the scopes.
RaceCheck(p) ==
    /\ call.op = "race" /\ call.pc[p] = "check"
    /\ UNCHANGED <<fs, host>>
    /\ IF ~validate_module_name(call.name).ok THEN RaceEnd(p, 1, "ValidationError")
       ELSE IF find_module(fs, call.name).err # ""
       THEN RaceEnd(p, 1, find_module(fs, call.name).err)
       ELSE IF already_exists(fs, call.name) THEN RaceEnd(p, 1, "FootoError")
       ELSE RaceGoto(p, "mkdir")

\* create_module: the module directory is made.
RaceMkdir(p) ==
    \E r \in {create_mkdir(fs, RacePath("mkdir"))} :
        /\ call.op = "race" /\ call.pc[p] = "mkdir"
        /\ UNCHANGED host
        /\ fs' = r.fs
        /\ IF r.err # "" THEN RaceEnd(p, 1, r.err)
           ELSE /\ call' = [call EXCEPT !.pc[p] = "chmod_dir", !.made[p] = TRUE]
                /\ UNCHANGED ret

\* create_module: set_secure_permissions on what the last step made; after
\* the last one the process ends with success.
RaceChmod(p) ==
    /\ call.op = "race" /\ call.pc[p] \in {"chmod_dir", "chmod_meta", "chmod_script"}
    /\ UNCHANGED host
    /\ fs' = set_secure_permissions(fs, RacePath(call.pc[p]), call.pc[p] = "chmod_script")
    /\ CASE call.pc[p] = "chmod_dir" -> RaceGoto(p, "meta")
         [] call.pc[p] = "chmod_meta" -> RaceGoto(p, "script")
         [] call.pc[p] = "chmod_script" -> RaceEnd(p, 0, "")

\* create_module: meta.json, then the script, is opened for writing and
\* written.
RaceWrite(p) ==
    \E r \in {write_file(fs, RacePath(call.pc[p]),
                         IF call.pc[p] = "meta" THEN meta_content(call.name) ELSE NoData,
                         IF call.pc[p] = "meta" THEN 117 ELSE 208)} :
        /\ call.op = "race" /\ call.pc[p] \in {"meta", "script"}
        /\ UNCHANGED host
        /\ fs' = r.fs
        /\ IF r.err # "" THEN RaceEnd(p, 1, r.err)
           ELSE /\ call' = [call EXCEPT
                              !.pc[p] = IF call.pc[p] = "meta" THEN "chmod_meta"
                                        ELSE "chmod_script",
                              !.written[p] = @ \cup {RacePath(call.pc[p])}]
                /\ UNCHANGED ret

NextRace ==
    \E p \in Procs :
        \/ RaceStartup(p)
        \/ RaceCheck(p)
        \/ RaceMkdir(p)
        \/ RaceChmod(p)
        \/ RaceWrite(p)

SpecRace ==
    InitRace /\ [][NextRace]_vars

\* C18: of two processes that create the same unused name at the same time,
\* in every interleaving of their steps, at most one gets past the creation
\* of the directory and writes meta.json and the script; the other exits
\* with code 1 and has written no file of the module directory.
C18_OneCreatorWins ==
    call.op = "race" =>
        /\ ~(call.made[1] /\ call.made[2])
        /\ \A p \in Procs : call.written[p] # {} => call.made[p]
        /\ \A p, q \in Procs :
              (p # q /\ call.made[p] /\ call.pc[q] = "done") =>
                  (ret[q].exit = 1 /\ call.written[q] = {})

\* Both processes passed the collision check before either made the
\* directory; one then ended in success with both files written and the
\* other ended at its mkdir with code 1.
C18_Witness_LoserStoppedAtMkdir ==
    /\ call.op = "race"
    /\ \E p, q \in Procs :
          /\ p # q
          /\ call.pc[p] = "done" /\ ret[p].exit = 0
          /\ Cardinality(call.written[p]) = 2
          /\ call.pc[q] = "done" /\ ret[q].exit = 1 /\ ret[q].err = "FileExistsError"

(***************************************************************************)
(* Specification of the commands on every host: a privileged or an         *)
(* unprivileged process, on a file system where chmod works or fails.  The *)
(* tree starts with the permission bits that mkdir and open give.          *)
(***************************************************************************)
InitHost ==
    /\ fs \in {BaseFs, Put(BaseFs, MODULES_DIR, DirNode(ModeDirDefault)), ScopesFs}
    /\ call = Idle
    /\ ret = Idle
    /\ host \in HostInputs

NextHost ==
    \/ RunCmd
    \/ CreateCmd
    \/ Exit

SpecHost ==
    InitHost /\ [][NextHost]_vars

\* The entry at the path is there and no permission bit of the group or of
\* the others is set on it.
OwnerOnly(f, path) ==
    path \in DOMAIN f /\ f[path].mode \subseteq {"ur", "uw", "ux"}

\* C14: after a create that ended in success, the module directory,
\* meta.json and the script each have owner-only permissions; a create
\* during which the permissions of an artifact could not be set does not end
\* in success.
C14_ArtifactsOwnerOnly ==
    (call.op = "create" /\ ret.exit = 0) =>
        /\ OwnerOnly(fs, Append(LOCAL_MODULES_DIR, call.name))
        /\ OwnerOnly(fs, LOCAL_MODULES_DIR \o <<call.name, N_meta_json>>)
        /\ OwnerOnly(fs, LOCAL_MODULES_DIR \o <<call.name, N_script_sh>>)

\* C16: for an unprivileged user and a valid name that no scope holds,
\* create runs to completion with exit code 0, and find_module and
\* load_and_validate_meta then return the module of the local scope with
\* version 0.1.0, lang bash and entry script.sh; and no create leaves a
\* module directory it made without a descriptor.
C16_UnprivilegedCreateCompletes ==
    [][(/\ call'.op = "create"
        /\ validate_module_name(call'.name).ok
        /\ Append(LOCAL_MODULES_DIR, call'.name) \notin DOMAIN fs
        /\ Append(BUNDLED_MODULES_DIR, call'.name) \notin DOMAIN fs)
          => /\ ~host.privileged =>
                  /\ ret'.exit = 0
                  /\ find_module(fs', call'.name).scope = "local"
                  /\ load_and_validate_meta(fs',
                         LOCAL_MODULES_DIR \o <<call'.name, N_meta_json>>).value
                       = meta_content(call'.name)
             /\ Append(LOCAL_MODULES_DIR, call'.name) \in DOMAIN fs'
                  => LOCAL_MODULES_DIR \o <<call'.name, N_meta_json>> \in DOMAIN fs']_vars

====
